---- MODULE Spec2Model ----
(***************************************************************************)
(* Model of newt-python (newt/newt.py): the NEWT session client and the    *)
(* Job handle.                                                             *)
(*                                                                         *)
(* Strings the code takes apart (job identifiers, remote paths) are        *)
(* sequences of one-character strings; a URL is the sequence of the pieces *)
(* the code concatenates.  Every operation records in `last` what the      *)
(* caller observed: the requests it sent through the session, whether it   *)
(* returned or raised, and the value or the exception kind.                *)
(*                                                                         *)
(* The remote server is the environment.  Each request is answered with a  *)
(* success status and a body, or with a non-success status; `auth` is the  *)
(* authentication state the server keeps for the session's cookie, and the *)
(* "auth" field of a login/logout/auth reply reports that state.           *)
(***************************************************************************)
EXTENDS Naturals, Integers, Sequences, FiniteSets, TLC

VARIABLES
    exists,   \* a NEWT instance exists (NEWT.__init__ returned)
    auth,     \* the session is authenticated at the server
    files,    \* the local file system download() writes to
    job,      \* one Job handle: its _data mapping and its instance attributes
    last      \* the last operation as the caller saw it

vars == <<exists, auth, files, job, last>>

(***************************************************************************)
(* Bounds of the model.                                                    *)
(***************************************************************************)
MaxJobs == 2      \* entries in one queue listing
MaxChunks == 2    \* chunks in one streamed download

(***************************************************************************)
(* Module constants of newt.py.                                            *)
(***************************************************************************)
NEWT_BASE_URL == "https://newt.nersc.gov/newt"
NEWT_MACHINES == {"hopper", "carver", "edison"}
NEWT_SYSTEMS == {"hopper", "carver", "edison", "pdsf", "genepool", "archive"}

(***************************************************************************)
(* Inputs and server replies.                                              *)
(***************************************************************************)
None == "<None>"
NoBody == "<no body>"
Usernames == {"alice", "bob"}
Passwords == {"secret"}
MachineArgs == {"hopper", "pdsf"}
SystemArgs == {None, "archive"}
RemotePaths == { <<"/", "d", "/", "f">>, <<"/", "d", "/">> }
LocalPathArgs == { <<>>, <<"g">> }
LocalNames == { <<"f">>, <<"g">> }
Payloads == {"payload"}
Commands == {"ls"}
FileObjs == { [name |-> <<"s">>, content |-> "data"] }
JobScripts == { [isfile |-> FALSE, text |-> "inline"],
                [isfile |-> TRUE, text |-> "from file"] }
JobFileArgs == {None, "", "/remote/job"}
Indexes == {0}
DefaultLimit == 10
QueueFilters == { [k \in {} |-> ""], [queue |-> "medium"] }

\* Field names of a job record, among those the Job docstring lists.  None of
\* them is a name a handle has of its own (_session, _data, update, delete).
Fields == {"jobid", "hostname", "state"}
JobIds == { <<"7">>, <<"7", ".", "s", ".", "t">> }
Hosts == {"hopper", "carver"}
States == {"Running", "Complete"}

EntryOver(S, j, h, st) ==
    [f \in S |-> CASE f = "jobid" -> j [] f = "hostname" -> h [] OTHER -> st]

\* The JSON objects the server can send for one job.
Entries ==
    { EntryOver(S, j, h, st) : S \in SUBSET Fields, j \in JobIds, h \in Hosts, st \in States }

\* The entries of the queue listings: complete, without state, without
\* hostname, and empty.
ListedEntries ==
    { EntryOver(Fields, <<"7", ".", "s", ".", "t">>, "hopper", "Running"),
      EntryOver({"jobid", "hostname"}, <<"7">>, "carver", "Running"),
      EntryOver({"jobid", "state"}, <<"7">>, "hopper", "Running"),
      EntryOver({}, <<"7">>, "hopper", "Running") }

SeqsUpTo(S, n) == UNION { [1..k -> S] : k \in 0..n }

Listings == SeqsUpTo(ListedEntries, MaxJobs)
Chunks == { <<>>, <<"a">> }
ChunkSeqs == SeqsUpTo(Chunks, MaxChunks)

OkResp(b) == [ok |-> TRUE, body |-> b]
FailResp == [ok |-> FALSE, body |-> NoBody]

\* Python truth of an optional string; of a character sequence (None is <<>>)
Truthy(x) == x # None /\ x # ""
TruthySeq(s) == s # <<>>

Req(method, url, payload) == [method |-> method, url |-> url, payload |-> payload]
NoPayload == [k \in {} |-> ""]

\* `after` is history: the operation and outcome that preceded an is_auth query.
NoAfter == <<"-", "-">>

Outcome(op, args, reqs, kind, value, resp) ==
    [op |-> op, args |-> args, reqs |-> reqs, kind |-> kind, value |-> value,
     resp |-> resp, after |-> NoAfter]

Return(op, args, reqs, value, resp) == Outcome(op, args, reqs, "return", value, resp)
Raise(op, args, reqs, exc, resp) == Outcome(op, args, reqs, "raise", exc, resp)

NoFile == [present |-> FALSE, bytes |-> <<>>]
NoJob == [_data |-> [f \in {} |-> <<>>], attrs |-> [f \in {} |-> <<>>]]

(***************************************************************************)
(* String helpers, computed as Python computes them.                       *)
(***************************************************************************)
\* str.split(sep) for a one-character separator
RECURSIVE split(_, _)
split(s, sep) ==
    IF s = <<>> THEN << <<>> >>
    ELSE LET rest == split(Tail(s), sep)
         IN  IF Head(s) = sep THEN << <<>> >> \o rest
             ELSE << <<Head(s)>> \o Head(rest) >> \o Tail(rest)

First(parts) == parts[1]
Last(parts) == parts[Len(parts)]

(***************************************************************************)
(* Authentication.                                                         *)
(***************************************************************************)
\* the auth flag of the reply goes unchecked
login_accepts_FlagUnchecked(body, username) == body.username = username

login_accepts(body, username) == body.auth /\ body.username = username

login_result(op, args, resp) ==
    LET reqs == << Req("POST", <<NEWT_BASE_URL, "/login">>,
                       [username |-> args.username, password |-> args.password]) >>
    IN  IF ~resp.ok THEN Raise(op, args, reqs, "HTTPError", resp)
        ELSE IF login_accepts(resp.body, args.username)
             THEN Return(op, args, reqs, resp.body.auth, resp)
             ELSE Raise(op, args, reqs, "ValueError", resp)

LoginBodies == [auth : BOOLEAN, username : Usernames]

\* NEWT(username, password): a fresh Session, then login
Construct(username, password, resp) ==
    /\ ~exists
    /\ LET args == [username |-> username, password |-> password]
           r == login_result("construct", args, resp)
       IN  /\ last' = r
           /\ exists' = (r.kind = "return")
           /\ auth' = (r.kind = "return" /\ resp.body.auth)
    /\ UNCHANGED <<files, job>>

login(username, password, resp) ==
    /\ exists
    /\ last' = login_result("login", [username |-> username, password |-> password], resp)
    /\ auth' = IF resp.ok THEN resp.body.auth ELSE auth
    /\ UNCHANGED <<exists, files, job>>

\* GET /logout; the server drops the session's authentication
logout_value(body) == ~body.auth

logout(ok) ==
    /\ exists
    /\ LET reqs == << Req("GET", <<NEWT_BASE_URL, "/logout">>, NoPayload) >>
           resp == IF ok THEN OkResp([auth |-> FALSE]) ELSE FailResp
       IN  /\ last' = IF ~resp.ok THEN Raise("logout", NoPayload, reqs, "HTTPError", resp)
                      ELSE Return("logout", NoPayload, reqs, logout_value(resp.body), resp)
           /\ auth' = IF resp.ok THEN FALSE ELSE auth
    /\ UNCHANGED <<exists, files, job>>

\* GET /auth; the server reports the session's authentication
\* the negation logout() applies, applied here as well
is_auth_value_Negated(body) == ~body.auth

is_auth_value(body) == body.auth

is_auth(ok) ==
    /\ exists
    /\ LET reqs == << Req("GET", <<NEWT_BASE_URL, "/auth">>, NoPayload) >>
           resp == IF ok THEN OkResp([auth |-> auth]) ELSE FailResp
           r == IF ~resp.ok THEN Raise("is_auth", NoPayload, reqs, "HTTPError", resp)
                ELSE Return("is_auth", NoPayload, reqs, is_auth_value(resp.body), resp)
       IN  last' = [r EXCEPT !.after = <<last.op, last.kind>>]
    /\ UNCHANGED <<exists, auth, files, job>>

(***************************************************************************)
(* Status API.                                                             *)
(***************************************************************************)
status(system, resp) ==
    /\ exists
    /\ LET args == [system |-> system]
           url == <<NEWT_BASE_URL, "/status">>
           reqs == IF Truthy(system)
                   THEN << Req("GET", url \o <<"/", system>>, NoPayload) >>
                   ELSE << Req("GET", url, NoPayload) >>
       IN  last' = IF ~resp.ok THEN Raise("status", args, reqs, "HTTPError", resp)
                   ELSE Return("status", args, reqs, resp.body, resp)
    /\ UNCHANGED <<exists, auth, files, job>>

motd(resp) ==
    /\ exists
    /\ LET reqs == << Req("GET", <<NEWT_BASE_URL, "/status/motd">>, NoPayload) >>
       IN  last' = IF ~resp.ok THEN Raise("motd", NoPayload, reqs, "HTTPError", resp)
                   ELSE Return("motd", NoPayload, reqs, resp.body, resp)
    /\ UNCHANGED <<exists, auth, files, job>>

(***************************************************************************)
(* File API.                                                               *)
(***************************************************************************)
\* the check made against the wider list of systems
valid_machine_Systems(machine) == machine \in NEWT_SYSTEMS

valid_machine(machine) == machine \in NEWT_MACHINES

\* the exception object the machine check hands back with `return`
ValueErrorObj == "ValueError('machine value must be specified')"

invalid_machine(op, args) == Return(op, args, <<>>, ValueErrorObj, FailResp)

list(machine, remote_dir, resp) ==
    /\ exists
    /\ LET args == [machine |-> machine, remote_dir |-> remote_dir]
           reqs == << Req("GET", <<NEWT_BASE_URL, "/file/", machine>> \o remote_dir,
                          NoPayload) >>
       IN  last' = IF ~valid_machine(machine) THEN invalid_machine("list", args)
                   ELSE IF ~resp.ok THEN Raise("list", args, reqs, "HTTPError", resp)
                   ELSE Return("list", args, reqs, resp.body, resp)
    /\ UNCHANGED <<exists, auth, files, job>>

\* the loop over resp.iter_content: empty chunks are not written
RECURSIVE write_chunks(_, _)
write_chunks(bytes, chunks) ==
    IF chunks = <<>> THEN bytes
    ELSE IF Head(chunks) # <<>> THEN write_chunks(bytes \o Head(chunks), Tail(chunks))
    ELSE write_chunks(bytes, Tail(chunks))

default_local_path(remote_path, local_path) ==
    IF ~TruthySeq(local_path) THEN Last(split(remote_path, "/")) ELSE local_path

\* the local file opened for writing before the status is checked
download_files_OpenFirst(fs, local_path, resp) ==
    IF local_path = <<>> THEN fs
    ELSE [fs EXCEPT ![local_path] =
              [present |-> TRUE,
               bytes |-> IF resp.ok THEN write_chunks(<<>>, resp.body) ELSE <<>>]]

\* raise_for_status() comes before open(local_path, 'wb')
download_files(fs, local_path, resp) ==
    IF ~resp.ok \/ local_path = <<>> THEN fs
    ELSE [fs EXCEPT ![local_path] =
              [present |-> TRUE, bytes |-> write_chunks(<<>>, resp.body)]]

download(machine, remote_path, local_arg, resp) ==
    /\ exists
    /\ LET args == [machine |-> machine, remote_path |-> remote_path,
                    local_path |-> local_arg]
           local_path == default_local_path(remote_path, local_arg)
           reqs == << Req("GET", <<NEWT_BASE_URL, "/file/", machine>> \o remote_path,
                          [view |-> "read"]) >>
       IN  IF ~valid_machine(machine)
           THEN /\ last' = invalid_machine("download", args)
                /\ files' = files
           ELSE /\ files' = download_files(files, local_path, resp)
                /\ last' = IF ~resp.ok
                           THEN Raise("download", args, reqs, "HTTPError", resp)
                           ELSE IF local_path = <<>>   \* open('') fails
                           THEN Raise("download", args, reqs, "IOError", resp)
                           ELSE Return("download", args, reqs, local_path, resp)
    /\ UNCHANGED <<exists, auth, job>>

\* os.path.split: (everything up to the last '/', the rest), the head stripped
\* of trailing slashes unless it is all slashes
RECURSIVE rstrip_slash(_)
rstrip_slash(s) ==
    IF s # <<>> /\ s[Len(s)] = "/" THEN rstrip_slash(SubSeq(s, 1, Len(s) - 1)) ELSE s

path_split(p) ==
    LET slashes == { k \in 1..Len(p) : p[k] = "/" }
        i == IF slashes = {} THEN 0 ELSE CHOOSE k \in slashes : \A m \in slashes : m <= k
        head == SubSeq(p, 1, i)
        tail == SubSeq(p, i + 1, Len(p))
    IN  << IF rstrip_slash(head) # <<>> THEN rstrip_slash(head) ELSE head, tail >>

upload(machine, remote_path, file_obj, resp) ==
    /\ exists
    /\ LET args == [machine |-> machine, remote_path |-> remote_path,
                    file_obj |-> file_obj]
           remote_dir == path_split(remote_path)[1]
           remote_filename == path_split(remote_path)[2]
           form == IF TruthySeq(remote_filename)
                   THEN [file |-> <<remote_filename, file_obj>>]
                   ELSE [file |-> <<file_obj.name, file_obj>>]
           reqs == << Req("POST", <<NEWT_BASE_URL, "/file/", machine>> \o remote_dir,
                          form) >>
       IN  last' = IF ~valid_machine(machine) THEN invalid_machine("upload", args)
                   ELSE IF ~resp.ok THEN Raise("upload", args, reqs, "HTTPError", resp)
                   ELSE Return("upload", args, reqs, TRUE, resp)
    /\ UNCHANGED <<exists, auth, files, job>>

(***************************************************************************)
(* Command API.                                                            *)
(***************************************************************************)
run_command(machine, command, loginenv, resp) ==
    /\ exists
    /\ LET args == [machine |-> machine, command |-> command, loginenv |-> loginenv]
           reqs == << Req("POST", <<NEWT_BASE_URL, "/command/", machine>>,
                          [executable |-> command, loginenv |-> loginenv]) >>
       IN  last' = IF ~valid_machine(machine) THEN invalid_machine("run_command", args)
                   ELSE IF ~resp.ok THEN Raise("run_command", args, reqs, "HTTPError", resp)
                   ELSE Return("run_command", args, reqs, resp.body, resp)
    /\ UNCHANGED <<exists, auth, files, job>>

(***************************************************************************)
(* Queue API.                                                              *)
(***************************************************************************)
\* dict.update: the keys of `new` replace those of `old`
Overlay(new, old) ==
    [k \in DOMAIN new \cup DOMAIN old |-> IF k \in DOMAIN new THEN new[k] ELSE old[k]]

\* Job(session, **kwargs)
JobInit(kwargs) == [_data |-> kwargs, attrs |-> [f \in {} |-> <<>>]]

\* the handles built in reverse order
queue_stat_jobs_Reversed(listing) ==
    [i \in 1..Len(listing) |-> JobInit(listing[Len(listing) + 1 - i])]

\* [Job(self._session, **job_info) for job_info in resp.json()]
queue_stat_jobs(listing) == [i \in 1..Len(listing) |-> JobInit(listing[i])]

queue_stat(machine, index, limit, kwargs, resp) ==
    /\ exists
    /\ LET args == [machine |-> machine, index |-> index, limit |-> limit,
                    kwargs |-> kwargs]
           params == Overlay(kwargs, [index |-> index, limit |-> limit])
           reqs == << Req("GET", <<NEWT_BASE_URL, "/queue/", machine>>, params) >>
       IN  last' = IF ~valid_machine(machine) THEN invalid_machine("queue_stat", args)
                   ELSE IF ~resp.ok THEN Raise("queue_stat", args, reqs, "HTTPError", resp)
                   ELSE Return("queue_stat", args, reqs, queue_stat_jobs(resp.body), resp)
    /\ UNCHANGED <<exists, auth, files, job>>

\* jobscript.read() on a file object opened by the caller
file_read(f) == f.text

\* the inline script sent whenever there is one
queue_submit_data_InlineFirst(jobscript, jobfile) ==
    IF jobscript.text # "" THEN [jobscript |-> jobscript.text, jobfile |-> ""]
    ELSE [jobscript |-> "", jobfile |-> jobfile]

\* the form queue_submit posts: a remote job file wins over the inline script
queue_submit_data(jobscript, jobfile) ==
    LET job_text == IF jobscript.isfile THEN file_read(jobscript) ELSE jobscript.text
    IN  IF Truthy(jobfile) THEN [jobscript |-> "", jobfile |-> jobfile]
        ELSE [jobscript |-> job_text, jobfile |-> ""]

queue_submit(machine, jobscript, jobfile, resp) ==
    /\ exists
    /\ LET args == [machine |-> machine, jobscript |-> jobscript, jobfile |-> jobfile]
           reqs == << Req("POST", <<NEWT_BASE_URL, "/queue/", machine>>,
                          queue_submit_data(jobscript, jobfile)) >>
       IN  last' = IF ~valid_machine(machine) THEN invalid_machine("queue_submit", args)
                   ELSE IF ~resp.ok THEN Raise("queue_submit", args, reqs, "HTTPError", resp)
                   ELSE Return("queue_submit", args, reqs, resp.body, resp)
    /\ UNCHANGED <<exists, auth, files, job>>

(***************************************************************************)
(* The session client: any sequence of its operations.                     *)
(***************************************************************************)
Init ==
    /\ exists = FALSE
    /\ auth = FALSE
    /\ files = [p \in LocalNames |-> NoFile]
    /\ job = NoJob
    /\ last = Outcome("none", NoPayload, <<>>, "return", None, FailResp)

Next ==
    \/ \E u \in Usernames, p \in Passwords, b \in LoginBodies : Construct(u, p, OkResp(b))
    \/ \E u \in Usernames, p \in Passwords : Construct(u, p, FailResp)
    \/ \E u \in Usernames, p \in Passwords, b \in LoginBodies : login(u, p, OkResp(b))
    \/ \E u \in Usernames, p \in Passwords : login(u, p, FailResp)
    \/ \E ok \in BOOLEAN : logout(ok)
    \/ \E ok \in BOOLEAN : is_auth(ok)
    \/ \E s \in SystemArgs, b \in Payloads : status(s, OkResp(b))
    \/ \E s \in SystemArgs : status(s, FailResp)
    \/ \E b \in Payloads : motd(OkResp(b))
    \/ motd(FailResp)
    \/ \E m \in MachineArgs, d \in RemotePaths, b \in Payloads : list(m, d, OkResp(b))
    \/ \E m \in MachineArgs, d \in RemotePaths : list(m, d, FailResp)
    \/ \E m \in MachineArgs, r \in RemotePaths, l \in LocalPathArgs, b \in ChunkSeqs :
          download(m, r, l, OkResp(b))
    \/ \E m \in MachineArgs, r \in RemotePaths, l \in LocalPathArgs :
          download(m, r, l, FailResp)
    \/ \E m \in MachineArgs, r \in RemotePaths, f \in FileObjs, b \in Payloads :
          upload(m, r, f, OkResp(b))
    \/ \E m \in MachineArgs, r \in RemotePaths, f \in FileObjs : upload(m, r, f, FailResp)
    \/ \E m \in MachineArgs, c \in Commands, e \in BOOLEAN, b \in Payloads :
          run_command(m, c, e, OkResp(b))
    \/ \E m \in MachineArgs, c \in Commands, e \in BOOLEAN : run_command(m, c, e, FailResp)
    \/ \E m \in MachineArgs, i \in Indexes, k \in QueueFilters, b \in Listings :
          queue_stat(m, i, DefaultLimit, k, OkResp(b))
    \/ \E m \in MachineArgs, i \in Indexes, k \in QueueFilters :
          queue_stat(m, i, DefaultLimit, k, FailResp)
    \/ \E m \in MachineArgs, s \in JobScripts, f \in JobFileArgs, b \in Payloads :
          queue_submit(m, s, f, OkResp(b))
    \/ \E m \in MachineArgs, s \in JobScripts, f \in JobFileArgs :
          queue_submit(m, s, f, FailResp)

Spec == Init /\ [][Next]_vars

(***************************************************************************)
(* The Job handle.                                                         *)
(***************************************************************************)
\* Attribute lookup on a handle: an attribute set on the instance is found
\* first; only a name not found that way reaches Job.__getattr__.
Readable(h, f) == f \in DOMAIN h.attrs \/ f \in DOMAIN h._data

Read(h, f) == IF f \in DOMAIN h.attrs THEN h.attrs[f] ELSE h._data[f]

\* what self._data[attr] raises for a key that is not there
MissingField == "KeyError"

getattr(f) ==
    /\ last' = IF Readable(job, f)
               THEN Return("getattr", [field |-> f], <<>>, Read(job, f), FailResp)
               ELSE Raise("getattr", [field |-> f], <<>>, MissingField, FailResp)
    /\ UNCHANGED <<exists, auth, files, job>>

\* the suffix cut at the last separator instead of the first
url_jobid_LastDot(jobid) ==
    LET parts == split(jobid, ".")
    IN  IF Len(parts) = 1 THEN jobid
        ELSE SubSeq(jobid, 1, Len(jobid) - Len(Last(parts)) - 1)

\* self.jobid.split('.')[0]
url_jobid(jobid) == First(split(jobid, "."))

job_url(h) ==
    <<NEWT_BASE_URL, "/queue/", Read(h, "hostname"), "/">> \o url_jobid(Read(h, "jobid"))

\* the stored mapping replaced by the fresh response
update_attrs_Replace(h, job_info) == [_data |-> job_info, attrs |-> [f \in {} |-> <<>>]]

\* for key in job_info: setattr(self, key, job_info[key])
update_attrs(h, job_info) == [h EXCEPT !.attrs = Overlay(job_info, h.attrs)]

update(resp) ==
    /\ IF ~Readable(job, "jobid") \/ ~Readable(job, "hostname")
       THEN /\ last' = Raise("update", NoPayload, <<>>, MissingField, FailResp)
            /\ job' = job
       ELSE LET reqs == << Req("GET", job_url(job), NoPayload) >>
            IN  IF ~resp.ok
                THEN /\ last' = Raise("update", NoPayload, reqs, "HTTPError", resp)
                     /\ job' = job
                ELSE /\ last' = Return("update", NoPayload, reqs, resp.body, resp)
                     /\ job' = update_attrs(job, resp.body)
    /\ UNCHANGED <<exists, auth, files>>

delete(resp) ==
    /\ LET reqs == << Req("DELETE", job_url(job), NoPayload) >>
       IN  last' = IF ~Readable(job, "jobid") \/ ~Readable(job, "hostname")
                   THEN Raise("delete", NoPayload, <<>>, MissingField, FailResp)
                   ELSE IF ~resp.ok THEN Raise("delete", NoPayload, reqs, "HTTPError", resp)
                   ELSE Return("delete", NoPayload, reqs, resp.body, resp)
    /\ UNCHANGED <<exists, auth, files, job>>

\* A handle as Job.__init__ leaves it, built from one job record, on the
\* session of a client whose construction succeeded.
InitJob ==
    /\ exists = TRUE
    /\ auth = TRUE
    /\ files = [p \in LocalNames |-> NoFile]
    /\ job \in { JobInit(e) : e \in Entries }
    /\ last = Outcome("Job", NoPayload, <<>>, "return", None, FailResp)

NextJob ==
    \/ \E f \in Fields : getattr(f)
    \/ \E b \in Entries : update(OkResp(b))
    \/ update(FailResp)
    \/ \E b \in Payloads : delete(OkResp(b))
    \/ delete(FailResp)

SpecJob == InitJob /\ [][NextJob]_vars

\* The two operations that change state kept on the caller's side.
NextLocal ==
    \/ \E b \in Entries : update(OkResp(b))
    \/ update(FailResp)
    \/ \E m \in MachineArgs, r \in RemotePaths, l \in LocalPathArgs, b \in ChunkSeqs :
          download(m, r, l, OkResp(b))
    \/ \E m \in MachineArgs, r \in RemotePaths, l \in LocalPathArgs :
          download(m, r, l, FailResp)

\* the handles of one queue listing, and no local file yet
InitLocal ==
    /\ exists = TRUE
    /\ auth = TRUE
    /\ files = [p \in LocalNames |-> NoFile]
    /\ job \in { JobInit(e) : e \in ListedEntries }
    /\ last = Outcome("Job", NoPayload, <<>>, "return", None, FailResp)

SpecLocal == InitLocal /\ [][NextLocal]_vars

(***************************************************************************)
(* Properties.                                                             *)
(***************************************************************************)
MachineOps == {"list", "download", "upload", "run_command", "queue_stat", "queue_submit"}

ClientOps == {"login", "logout", "is_auth", "status", "motd"} \cup MachineOps

InvalidMachineCall == last.op \in MachineOps /\ last.args.machine \notin NEWT_MACHINES

\* C1: for a machine outside {hopper, carver, edison}, each of list, download,
\* upload, run_command, queue_stat and queue_submit raises an error, the same
\* kind for all six; none hands an error object back as its return value.
C1_InvalidMachineRaises ==
    InvalidMachineCall => (last.kind = "raise" /\ last.value = "ValueError")

\* C2: an is_auth query right after a login that succeeded returns true, and
\* one right after a logout returns false (no transport failure).
C2_IsAuthFollowsLoginLogout ==
    (last.op = "is_auth" /\ last.kind = "return") =>
        /\ (last.after = <<"login", "return">> => last.value = TRUE)
        /\ (last.after = <<"logout", "return">> => last.value = FALSE)

C2_Witness ==
    /\ last.op = "is_auth" /\ last.kind = "return"
    /\ last.after = <<"login", "return">>
    /\ last.value = TRUE

\* C3 as stated: a client instance that exists is authenticated, in every
\* reachable state.
C3_ExistingClientIsAuthenticated == exists => auth

LoginRejected(r) == r.op = "login" /\ r.resp.ok /\ ~r.resp.body.auth

\* C3 amended: the constructor yields an instance exactly when the login reply
\* has a success status, a true auth flag and the username supplied, and that
\* instance is then authenticated; an instance stays authenticated until
\* logout() is called or the server answers a later login() with a false
\* auth flag.
C3_AuthenticatedUntilLogout ==
    [][ /\ last'.op = "construct" =>
              /\ exists' = ( /\ last'.resp.ok
                             /\ last'.resp.body.auth
                             /\ last'.resp.body.username = last'.args.username )
              /\ exists' => auth'
        /\ (exists /\ auth /\ ~auth') => (last'.op = "logout" \/ LoginRejected(last'))
        /\ exists => exists'
      ]_vars

C3_Witness ==
    /\ last.op = "is_auth" /\ last.kind = "return"
    /\ last.after = <<"construct", "return">>
    /\ exists /\ auth

BeforeFirstDot(s) ==
    LET dots == { i \in 1..Len(s) : s[i] = "." }
    IN  IF dots = {} THEN s
        ELSE SubSeq(s, 1, (CHOOSE i \in dots : \A k \in dots : i <= k) - 1)

\* C5: update() and delete() send their request to the per-job endpoint made
\* of the handle's current hostname and its current jobid up to the first '.';
\* the jobid read back from the handle is not the stripped one.
C5_PerJobEndpoint ==
    [][ (last'.op \in {"update", "delete"} /\ Readable(job, "jobid")
            /\ Readable(job, "hostname")) =>
            /\ Len(last'.reqs) = 1
            /\ last'.reqs[1].method = (IF last'.op = "update" THEN "GET" ELSE "DELETE")
            /\ last'.reqs[1].url =
                   <<NEWT_BASE_URL, "/queue/", Read(job, "hostname"), "/">>
                       \o BeforeFirstDot(Read(job, "jobid"))
            /\ Read(job', "jobid") =
                   (IF /\ last'.op = "update" /\ last'.kind = "return"
                       /\ "jobid" \in DOMAIN last'.resp.body
                    THEN last'.resp.body["jobid"]
                    ELSE Read(job, "jobid"))
      ]_vars

\* delete() on a handle whose current jobid came from an update and has two dots
C5_Witness ==
    /\ last.op = "delete" /\ Len(last.reqs) = 1
    /\ "jobid" \in DOMAIN job.attrs
    /\ Cardinality({ i \in 1..Len(Read(job, "jobid")) : Read(job, "jobid")[i] = "." }) = 2
    /\ Read(job, "jobid") # BeforeFirstDot(Read(job, "jobid"))

\* C6: queue_submit on a supported machine posts the jobfile path and an empty
\* jobscript when jobfile is non-empty, whatever the jobscript; otherwise the
\* inline jobscript text and an empty jobfile.
C6_OneSubmissionMode ==
    (last.op = "queue_submit" /\ last.args.machine \in NEWT_MACHINES) =>
        /\ Len(last.reqs) = 1
        /\ IF last.args.jobfile \notin {None, ""}
           THEN /\ last.reqs[1].payload.jobfile = last.args.jobfile
                /\ last.reqs[1].payload.jobscript = ""
           ELSE /\ last.reqs[1].payload.jobscript = last.args.jobscript.text
                /\ last.reqs[1].payload.jobfile = ""

C6_Witness ==
    /\ last.op = "queue_submit" /\ last.args.machine \in NEWT_MACHINES
    /\ last.args.jobfile = "/remote/job" /\ last.args.jobscript.text # ""
    /\ last.reqs[1].payload.jobscript = ""

C8_MissingFieldIsAttributeError ==
    (last.op = "getattr" /\ ~Readable(job, last.args.field)) =>
        (last.kind = "raise" /\ last.value = "AttributeError")

\* C9 as stated: every call of a session client operation, a machine outside
\* the supported set included, issues exactly one HTTP request.
C9_ExactlyOneRequest == last.op \in ClientOps => Len(last.reqs) = 1

\* C9 amended: every call of a session client operation issues exactly one
\* HTTP request, except that a call naming a machine outside the supported set
\* issues none.
C9_OneRequestUnlessInvalidMachine ==
    last.op \in ClientOps => Len(last.reqs) = (IF InvalidMachineCall THEN 0 ELSE 1)

C9_Witness ==
    /\ last.op = "run_command" /\ last.args.machine = "pdsf"
    /\ last.reqs = <<>>

\* C10: a non-success status makes the operation raise the transport error
\* with local state untouched: a failed update() leaves the handle's fields
\* as they were, a failed download() leaves the local files as they were.
C10_FailureLeavesLocalState ==
    [][ (last'.op \in {"update", "download"} /\ last'.reqs # <<>> /\ ~last'.resp.ok) =>
            /\ last'.kind = "raise" /\ last'.value = "HTTPError"
            /\ job' = job
            /\ files' = files
      ]_vars

\* a failed download over a file an earlier download wrote
C10_Witness ==
    /\ last.op = "download" /\ last.kind = "raise" /\ last.value = "HTTPError"
    /\ files[<<"f">>].present /\ files[<<"f">>].bytes # <<>>
    /\ last.args.local_path = <<>> /\ last.args.remote_path = <<"/", "d", "/", "f">>

====
